---- MODULE Spec2Model ----
(***************************************************************************)
(* Model of src/src/agency_swarm/cli.py: the create-agent-template command *)
(* and the generator create_agent_template_structure, run against a model  *)
(* of the POSIX filesystem as pathlib sees it.                             *)
(*                                                                         *)
(* Text (names, descriptions, file contents, file names) is a sequence of  *)
(* chunks.  A chunk of a name is one character (" ", tab, "/", ".") or a   *)
(* word free of whitespace, "/" and "."; str concatenation is \o.          *)
(* A path is a sequence of components, a component is a text.              *)
(***************************************************************************)
EXTENDS Integers, Sequences, FiniteSets, TLC

\* ---------------------------------------------------------------- bounds
MaxNameLen == 3
MaxDescLen == 1
MaxFaults == 1
MaxFaultAt == 4

\* ---------------------------------------------------------------- text
Space == " "
Tab == "\t"
Slash == "/"
Dot == "."
Whitespace == {Space, Tab}
\* "tools" and "__init__" are words; "tools" also stands for any plain name
NameAlphabet == {Space, Tab, Slash, Dot, "__init__", "tools"}
\* a chunk of a description is a phrase with upper case and quote characters
Phrase == "Say \"Hi\""
DescAlphabet == {Phrase}

RECURSIVE SeqsUpTo(_, _)
SeqsUpTo(S, n) ==
  IF n = 0 THEN {<< >>}
  ELSE LET shorter == SeqsUpTo(S, n - 1)
       IN shorter \cup {Append(s, c) : s \in {t \in shorter : Len(t) = n - 1}, c \in S}

Names == SeqsUpTo(NameAlphabet, MaxNameLen)
Descriptions == SeqsUpTo(DescAlphabet, MaxDescLen)

\* str.strip(): drop leading and trailing whitespace of every kind
RECURSIVE LStrip(_)
LStrip(s) == IF s # << >> /\ Head(s) \in Whitespace THEN LStrip(Tail(s)) ELSE s
RECURSIVE RStrip(_)
RStrip(s) ==
  IF s # << >> /\ s[Len(s)] \in Whitespace THEN RStrip(SubSeq(s, 1, Len(s) - 1)) ELSE s
Strip(s) == RStrip(LStrip(s))

\* str.replace(" ", ""): drop every space character, and only those
IsNotSpace(c) == c # Space
ReplaceSpaces(s) == SelectSeq(s, IsNotSpace)

\* agent_name = name.strip().replace(" ", "")
Sanitize(n) == ReplaceSpaces(Strip(n))

\* str.lower() on the description
LowerChar(c) == IF c = Phrase THEN "say \"hi\"" ELSE c
Lower(s) == [i \in 1..Len(s) |-> LowerChar(s[i])]

\* substring test on texts
Contains(s, sub) ==
  \E i \in 0..(Len(s) - Len(sub)) : SubSeq(s, i + 1, i + Len(sub)) = sub

\* ---------------------------------------------------------------- pathlib
Root == << >>
DotDot == <<Dot, Dot>>
Parent(p) == IF p = Root THEN Root ELSE SubSeq(p, 1, Len(p) - 1)

\* split a text on "/" into its components, empty ones included
RECURSIVE SplitSlash(_, _)
SplitSlash(s, cur) ==
  IF s = << >> THEN <<cur>>
  ELSE IF Head(s) = Slash THEN <<cur>> \o SplitSlash(Tail(s), << >>)
  ELSE SplitSlash(Tail(s), Append(cur, Head(s)))

\* PurePath parsing: empty and "." components are dropped, ".." is kept
IsRealPart(c) == c # << >> /\ c # <<Dot>>
ParseParts(s) == SelectSeq(SplitSlash(s, << >>), IsRealPart)
IsAbsolute(s) == s # << >> /\ Head(s) = Slash

\* Path(base) / s : an absolute right operand replaces the left one
Join(base, s) == IF IsAbsolute(s) THEN ParseParts(s) ELSE base \o ParseParts(s)

\* ---------------------------------------------------------------- filesystem
\* fs = [dirs |-> set of canonical paths, files |-> [canonical path -> content]]
Present(f, p) == p \in f.dirs \/ p \in DOMAIN f.files

\* kernel path walk over the components of a directory path
RECURSIVE WalkDir(_, _, _)
WalkDir(f, cur, parts) ==
  IF parts = << >> THEN [err |-> "OK", path |-> cur]
  ELSE LET nxt == IF Head(parts) = DotDot THEN Parent(cur) ELSE Append(cur, Head(parts))
       IN IF nxt \in f.dirs THEN WalkDir(f, nxt, Tail(parts))
          ELSE IF nxt \in DOMAIN f.files THEN [err |-> "ENOTDIR", path |-> nxt]
          ELSE [err |-> "ENOENT", path |-> nxt]

\* resolve a lexical path to the canonical path of its last component,
\* which need not exist; every earlier component must be a directory
Lookup(f, raw) ==
  IF raw = Root THEN [err |-> "OK", path |-> Root]
  ELSE LET d == WalkDir(f, Root, Parent(raw))
           last == raw[Len(raw)]
       IN IF d.err # "OK" THEN d
          ELSE IF last = DotDot THEN [err |-> "OK", path |-> Parent(d.path)]
          ELSE [err |-> "OK", path |-> Append(d.path, last)]

\* a check that sees directories only
ExistsAsDirOnly(f, raw) == LET l == Lookup(f, raw) IN l.err = "OK" /\ l.path \in f.dirs
\* Path.exists() / Path.is_dir()
Exists(f, raw) == LET l == Lookup(f, raw) IN l.err = "OK" /\ Present(f, l.path)
IsDir(f, raw) == LET l == Lookup(f, raw) IN l.err = "OK" /\ l.path \in f.dirs

\* k counts the system calls that still succeed before the injected I/O
\* failure (0: the next one fails with EIO; -1: none fails)
Tick(k) == IF k > 0 THEN k - 1 ELSE k

\* os.mkdir(raw)
OsMkdir(f, raw, k) ==
  IF k = 0 THEN [fs |-> f, err |-> "EIO", k |-> -1]
  ELSE LET l == Lookup(f, raw)
       IN IF l.err # "OK" THEN [fs |-> f, err |-> l.err, k |-> Tick(k)]
          ELSE IF Present(f, l.path) THEN [fs |-> f, err |-> "EEXIST", k |-> Tick(k)]
          ELSE [fs |-> [f EXCEPT !.dirs = @ \cup {l.path}], err |-> "OK", k |-> Tick(k)]

\* Path.mkdir(parents=..., exist_ok=...)
RECURSIVE PathMkdir(_, _, _, _, _)
PathMkdir(f, raw, parents, exist_ok, k) ==
  LET r == OsMkdir(f, raw, k)
  IN IF r.err = "OK" THEN r
     ELSE IF r.err = "ENOENT" THEN
       IF ~parents \/ Parent(raw) = raw THEN r
       ELSE LET up == PathMkdir(f, Parent(raw), TRUE, TRUE, r.k)
            IN IF up.err # "OK" THEN up
               ELSE PathMkdir(up.fs, raw, FALSE, exist_ok, up.k)
     ELSE IF ~exist_ok \/ ~IsDir(f, raw) THEN r
     ELSE [r EXCEPT !.err = "OK"]

\* Path.write_text(content): open(raw, "w") creates or truncates, then the
\* data is written; a failed write leaves the file behind, incomplete (the
\* prefix that reached the disk is modelled as the empty text)
WriteText(f, raw, content, k) ==
  IF k = 0 THEN [fs |-> f, err |-> "EIO", k |-> -1]
  ELSE LET l == Lookup(f, raw)
           holder == DOMAIN f.files \cup {l.path}
           opened == [f EXCEPT !.files =
                        [q \in holder |-> IF q = l.path THEN << >> ELSE f.files[q]]]
           written == [f EXCEPT !.files =
                        [q \in holder |-> IF q = l.path THEN content ELSE f.files[q]]]
       IN IF l.err # "OK" THEN [fs |-> f, err |-> l.err, k |-> Tick(k)]
          ELSE IF l.path \in f.dirs THEN [fs |-> f, err |-> "EISDIR", k |-> Tick(k)]
          ELSE IF content # << >> /\ Tick(k) = 0
               THEN [fs |-> opened, err |-> "EIO", k |-> -1]
          ELSE [fs |-> written, err |-> "OK", k |-> Tick(Tick(k))]

\* ---------------------------------------------------------------- templates
Py == <<Dot, "py">>
Ext(txt) == IF txt THEN "txt" ELSE "md"

\* init_content (an f-string: the literal pieces joined with agent_name)
InitContent(an) ==
  <<"\"\"\"Agent module for ">> \o an \o <<".\"\"\"\n\nfrom .">> \o an
    \o <<" import ">> \o an \o <<"\n\n__all__ = [\"">> \o an \o <<"\"]\n">>

\* a class stub that always points at instructions.md
AgentClassContentMdOnly(an, desc, txt) ==
  <<"from agency_swarm import Agent\n\n\nclass ">> \o an
    \o <<"(Agent):\n    def __init__(self):\n        super().__init__(\n            ">>
    \o <<"name=\"">> \o an \o <<"\"", ",\n            ">>
    \o <<"description=\"">> \o desc \o <<"\"", ",\n            ">>
    \o <<"instructions=\"./instructions.", "md", "\"", ",\n            ">>
    \o <<"files_folder=\"./files\",\n            schemas_folder=\"./schemas\", \n            tools_folder=\"./tools\",\n            temperature=0.3,\n            max_prompt_tokens=25000,\n        )\n">>

\* agent_class_content
AgentClassContent(an, desc, txt) ==
  <<"from agency_swarm import Agent\n\n\nclass ">> \o an
    \o <<"(Agent):\n    def __init__(self):\n        super().__init__(\n            ">>
    \o <<"name=\"">> \o an \o <<"\"", ",\n            ">>
    \o <<"description=\"">> \o desc \o <<"\"", ",\n            ">>
    \o <<"instructions=\"./instructions.", Ext(txt), "\"", ",\n            ">>
    \o <<"files_folder=\"./files\",\n            schemas_folder=\"./schemas\", \n            tools_folder=\"./tools\",\n            temperature=0.3,\n            max_prompt_tokens=25000,\n        )\n">>

\* instructions_content
InstructionsContent(an, desc) ==
  <<"# ">> \o an \o <<" Agent Instructions\n\n", "## Role\n", "You are a ">> \o an
    \o <<" agent responsible for ">> \o Lower(desc) \o <<".\n", "\n## Goals\n">>
    \o <<"- Define the main objectives of this agent\n- List specific tasks this agent should accomplish\n- Outline how this agent contributes to the overall agency\n\n## Process\n1. How to handle incoming requests\n2. When and how to use available tools\n3. How to collaborate with other agents\n4. Any specific workflows or procedures\n\n## Tools\n- List and describe the tools available to this agent\n- Explain when and how to use each tool\n- Include any tool-specific guidelines\n\n## Communication\n- How to communicate with other agents\n- What information to share and when\n- Protocols for handoffs and coordination\n">>

\* example_tool_content
ExampleToolContent(an) ==
  <<"from agency_swarm.tools import BaseTool\nfrom pydantic import Field\n\n\nclass ExampleTool(BaseTool):\n    \"\"\"\n    An example tool for the ">>
    \o an
    \o <<" agent.\n    Replace this with your actual tools.\n    \"\"\"\n    \n    example_field: str = Field(\n        ..., \n        description=\"Description of what this field is used for\"\n    )\n    \n    def run(self):\n        \"\"\"\n        Execute the tool's main functionality.\n        \"\"\"\n        # Implement your tool logic here\n        return f\"Tool executed with: {self.example_field}\"\n">>

\* ---------------------------------------------------------------- the steps
\* the filesystem steps of create_agent_template_structure, in program order
Steps ==
  <<"check", "mkdir_target", "mkdir_files", "mkdir_schemas", "mkdir_tools",
    "write_init", "write_class", "write_instructions", "write_example_tool",
    "write_tools_init">>
SubdirSteps == {"mkdir_files", "mkdir_schemas", "mkdir_tools"}
WriteSteps ==
  {"write_init", "write_class", "write_instructions", "write_example_tool",
   "write_tools_init"}

StepIndex(s) == CHOOSE i \in 1..Len(Steps) : Steps[i] = s
\* an order that writes the example tool before the tools directory is made
NextPcToolsLate(s) ==
  IF s = "mkdir_schemas" THEN "write_example_tool"
  ELSE IF s = "write_example_tool" THEN "mkdir_tools"
  ELSE IF s = "mkdir_tools" THEN "write_init"
  ELSE IF s = "write_instructions" THEN "write_tools_init"
  ELSE IF s = "write_tools_init" THEN "returned"
  ELSE Steps[StepIndex(s) + 1]
\* where control goes when step s completes without an exception
NextPc(s) == IF StepIndex(s) = Len(Steps) THEN "returned" ELSE Steps[StepIndex(s) + 1]

\* the directory each mkdir step creates
SubdirPath(ap, s) ==
  IF s = "mkdir_files" THEN Join(ap, <<"files">>)
  ELSE IF s = "mkdir_schemas" THEN Join(ap, <<"schemas">>)
  ELSE Join(ap, <<"tools">>)

\* the path each write step writes to
WritePath(ap, an, txt, s) ==
  IF s = "write_init" THEN Join(ap, <<"__init__">> \o Py)
  ELSE IF s = "write_class" THEN Join(ap, an \o Py)
  ELSE IF s = "write_instructions" THEN Join(ap, <<"instructions", Dot, Ext(txt)>>)
  ELSE IF s = "write_example_tool" THEN Join(Join(ap, <<"tools">>), <<"example_tool">> \o Py)
  ELSE Join(Join(ap, <<"tools">>), <<"__init__">> \o Py)

\* the text each write step writes
WriteContent(an, desc, txt, s) ==
  IF s = "write_init" THEN InitContent(an)
  ELSE IF s = "write_class" THEN AgentClassContent(an, desc, txt)
  ELSE IF s = "write_instructions" THEN InstructionsContent(an, desc)
  ELSE IF s = "write_example_tool" THEN ExampleToolContent(an)
  ELSE << >>

\* ---------------------------------------------------------------- exceptions
NoExc == [type |-> "None", errno |-> "", path |-> Root]
\* raise ValueError(f"Agent directory '{agent_path}' already exists!")
AlreadyExists(ap) == [type |-> "ValueError", errno |-> "already exists!", path |-> ap]
\* the OSError subclass the interpreter raises for a failed system call
OsError(errno, raw) ==
  [type |-> IF errno = "ENOENT" THEN "FileNotFoundError"
            ELSE IF errno = "EEXIST" THEN "FileExistsError"
            ELSE IF errno = "ENOTDIR" THEN "NotADirectoryError"
            ELSE IF errno = "EISDIR" THEN "IsADirectoryError"
            ELSE "OSError",
   errno |-> errno, path |-> raw]

\* a success message that shows the identifier instead of the name
SuccessMessageOfIdentifier(n) ==
  <<"OK Agent template '">> \o Sanitize(n) \o <<"' created successfully!">>
\* click.echo(f"<emoji> Agent template '{name}' created successfully!"); the
\* emoji that opens either message is written OK here
SuccessMessage(n) == <<"OK Agent template '">> \o n \o <<"' created successfully!">>
\* click.echo(f"<emoji> Error creating agent template: {e}", err=True)
ErrorMessage(e) == [text |-> "Error creating agent template: ", e |-> e]

\* ---------------------------------------------------------------- state
Procs == {1, 2}
Other(p) == 3 - p

VARIABLES
  fs,          \* the filesystem
  pc,          \* per invocation: "idle", "start", a step of Steps, "returned", "raised", "exited"
  name, description, base_path, use_txt,   \* the command's arguments
  agent_name, agent_path,                  \* locals of the generator
  exc,         \* the exception in flight or caught, NoExc if none
  stdout, stderr, exit_code,               \* what the command reports (-1: running)
  faultsLeft,  \* I/O failures the environment may still inject
  fs0,         \* history: the filesystem when the invocation was entered
  log,         \* history: the steps the invocation has completed
  wlog,        \* history: the writes the invocation has completed
  lastw,       \* history: per file, the invocation and step that wrote it last
  sawAtCheck   \* history: whether the other invocation was over at the existence check

vars ==
  <<fs, pc, name, description, base_path, use_txt, agent_name, agent_path, exc,
    stdout, stderr, exit_code, faultsLeft, fs0, log, wlog, lastw, sawAtCheck>>

args == <<name, description, base_path, use_txt>>
report == <<stdout, stderr, exit_code>>

\* ---------------------------------------------------------------- initial states
W == <<"w">>
N == <<"n">>
Old == <<"old">>
NoFiles == [q \in {} |-> << >>]
BasePaths == {<<W>>, <<W, N>>}
InitFileSystems ==
  { [dirs |-> {Root}, files |-> NoFiles],
    [dirs |-> {Root, <<W>>, <<W, <<"tools">>>>},
     files |-> [q \in {<<W, <<"instructions", Dot, "txt">>>>} |-> Old]],
    [dirs |-> {Root, <<W>>}, files |-> [q \in {<<W, <<"tools">>>>} |-> Old]] }

Blank(f) ==
  /\ agent_name = [p \in Procs |-> << >>]
  /\ agent_path = [p \in Procs |-> Root]
  /\ exc = [p \in Procs |-> NoExc]
  /\ stdout = [p \in Procs |-> << >>]
  /\ stderr = [p \in Procs |-> << >>]
  /\ exit_code = [p \in Procs |-> -1]
  /\ fs0 = [p \in Procs |-> f]
  /\ log = [p \in Procs |-> << >>]
  /\ wlog = [p \in Procs |-> << >>]
  /\ lastw = [q \in {} |-> << >>]
  /\ sawAtCheck = [p \in Procs |-> "unchecked"]

\* one command is running, a second one may be run once it has exited
Init ==
  /\ fs \in InitFileSystems
  /\ pc = [p \in Procs |-> IF p = 1 THEN "start" ELSE "idle"]
  /\ \E n \in Names, d \in Descriptions, b \in BasePaths, t \in BOOLEAN :
       /\ name = [p \in Procs |-> IF p = 1 THEN n ELSE << >>]
       /\ description = [p \in Procs |-> IF p = 1 THEN d ELSE << >>]
       /\ base_path = [p \in Procs |-> IF p = 1 THEN b ELSE Root]
       /\ use_txt = [p \in Procs |-> IF p = 1 THEN t ELSE FALSE]
  /\ faultsLeft = MaxFaults
  /\ Blank(fs)

\* ---------------------------------------------------------------- actions
\* create_agent_template calls the generator, which computes its locals
Enter(p) ==
  /\ pc[p] = "start"
  /\ agent_name' = [agent_name EXCEPT ![p] = Sanitize(name[p])]
  /\ agent_path' = [agent_path EXCEPT ![p] = Join(base_path[p], Sanitize(name[p]))]
  /\ fs0' = [fs0 EXCEPT ![p] = fs]
  /\ pc' = [pc EXCEPT ![p] = "check"]
  /\ UNCHANGED <<fs, args, exc, report, faultsLeft, log, wlog, lastw, sawAtCheck>>

\* if agent_path.exists(): raise ValueError(...)
Check(p) ==
  /\ pc[p] = "check"
  /\ sawAtCheck' = [sawAtCheck EXCEPT ![p] =
                      IF pc[Other(p)] \in {"returned", "raised", "exited"} THEN "over"
                      ELSE "not over"]
  /\ IF Exists(fs, agent_path[p])
     THEN /\ exc' = [exc EXCEPT ![p] = AlreadyExists(agent_path[p])]
          /\ pc' = [pc EXCEPT ![p] = "raised"]
          /\ log' = log
     ELSE /\ exc' = exc
          /\ pc' = [pc EXCEPT ![p] = NextPc("check")]
          /\ log' = [log EXCEPT ![p] = Append(@, "check")]
  /\ UNCHANGED <<fs, args, agent_name, agent_path, report, faultsLeft, fs0, wlog, lastw>>

\* the system-call positions at which the environment may inject a failure
FaultPoints == {-1} \cup (IF faultsLeft > 0 THEN 0..MaxFaultAt ELSE {})
Fired(k, r) == k >= 0 /\ r.k = -1

\* what a step leaves behind: r is the result of its filesystem call
Finish(p, s, raw, k, r) ==
  /\ k >= 0 => Fired(k, r)
  /\ fs' = r.fs
  /\ faultsLeft' = IF Fired(k, r) THEN faultsLeft - 1 ELSE faultsLeft
  /\ IF r.err = "OK"
     THEN /\ pc' = [pc EXCEPT ![p] = NextPc(s)]
          /\ log' = [log EXCEPT ![p] = Append(@, s)]
          /\ exc' = exc
     ELSE /\ pc' = [pc EXCEPT ![p] = "raised"]
          /\ log' = log
          /\ exc' = [exc EXCEPT ![p] = OsError(r.err, raw)]
  /\ UNCHANGED <<args, agent_name, agent_path, report, fs0, sawAtCheck>>

\* agent_path.mkdir(parents=True, exist_ok=True)
MkdirTarget(p) ==
  /\ pc[p] = "mkdir_target"
  /\ \E k \in FaultPoints :
       Finish(p, "mkdir_target", agent_path[p], k,
              PathMkdir(fs, agent_path[p], TRUE, TRUE, k))
  /\ UNCHANGED <<wlog, lastw>>

\* (agent_path / "files" | "schemas" | "tools").mkdir(exist_ok=True)
MkdirSub(p) ==
  /\ pc[p] \in SubdirSteps
  /\ \E k \in FaultPoints :
       Finish(p, pc[p], SubdirPath(agent_path[p], pc[p]), k,
              PathMkdir(fs, SubdirPath(agent_path[p], pc[p]), FALSE, TRUE, k))
  /\ UNCHANGED <<wlog, lastw>>

\* (agent_path / ...).write_text(...), five times
WriteFile(p) ==
  /\ pc[p] \in WriteSteps
  /\ \E k \in FaultPoints :
       LET s == pc[p]
           raw == WritePath(agent_path[p], agent_name[p], use_txt[p], s)
           content == WriteContent(agent_name[p], description[p], use_txt[p], s)
           r == WriteText(fs, raw, content, k)
           at == Lookup(fs, raw).path
       IN /\ Finish(p, s, raw, k, r)
          /\ wlog' = IF r.err = "OK"
                     THEN [wlog EXCEPT ![p] =
                             Append(@, [step |-> s, path |-> at, content |-> content])]
                     ELSE wlog
          /\ lastw' = IF r.fs # fs \/ r.err = "OK"
                      THEN [q \in DOMAIN lastw \cup {at} |->
                              IF q = at THEN [proc |-> p, step |-> s, ok |-> r.err = "OK"]
                              ELSE lastw[q]]
                      ELSE lastw

\* back in create_agent_template: echo the outcome and leave
Report(p) ==
  /\ pc[p] \in {"returned", "raised"}
  /\ IF pc[p] = "returned"
     THEN /\ stdout' = [stdout EXCEPT ![p] = Append(@, SuccessMessage(name[p]))]
          /\ stderr' = stderr
          /\ exit_code' = [exit_code EXCEPT ![p] = 0]
     ELSE /\ stderr' = [stderr EXCEPT ![p] = Append(@, ErrorMessage(exc[p]))]
          /\ stdout' = stdout
          /\ exit_code' = [exit_code EXCEPT ![p] = 1]
  /\ pc' = [pc EXCEPT ![p] = "exited"]
  /\ UNCHANGED <<fs, args, agent_name, agent_path, exc, faultsLeft, fs0,
                 log, wlog, lastw, sawAtCheck>>

\* after a successful run the user runs the command again for the same
\* agent, with any description and extension flag
Rerun ==
  /\ pc[1] = "exited" /\ exit_code[1] = 0 /\ pc[2] = "idle"
  /\ \E d \in Descriptions, t \in BOOLEAN :
       /\ name' = [name EXCEPT ![2] = name[1]]
       /\ description' = [description EXCEPT ![2] = d]
       /\ use_txt' = [use_txt EXCEPT ![2] = t]
  /\ base_path' = [base_path EXCEPT ![2] = base_path[1]]
  /\ pc' = [pc EXCEPT ![2] = "start"]
  /\ UNCHANGED <<fs, agent_name, agent_path, exc, report, faultsLeft, fs0,
                 log, wlog, lastw, sawAtCheck>>

Step(p) ==
  \/ Enter(p)
  \/ Check(p)
  \/ MkdirTarget(p)
  \/ MkdirSub(p)
  \/ WriteFile(p)
  \/ Report(p)

Next == (\E p \in Procs : Step(p)) \/ Rerun

Spec == Init /\ [][Next]_vars

\* two commands started together, no injected I/O failure
RaceNames == {<<"tools">>, <<"tools", Space>>, <<"__init__">>, <<"__init__", Slash, "__init__">>}
RaceFileSystems ==
  { [dirs |-> {Root}, files |-> NoFiles], [dirs |-> {Root, <<W>>}, files |-> NoFiles] }
InitRace ==
  /\ fs \in RaceFileSystems
  /\ pc = [p \in Procs |-> "start"]
  /\ name \in [Procs -> RaceNames]
  /\ description \in [Procs -> Descriptions]
  /\ base_path = [p \in Procs |-> <<W>>]
  /\ use_txt \in [Procs -> BOOLEAN]
  /\ faultsLeft = 0
  /\ Blank(fs)

NextRace == \E p \in Procs : Step(p)

SpecRace == InitRace /\ [][NextRace]_vars

\* ---------------------------------------------------------------- vocabulary of the properties
IsPrefix(a, b) == Len(a) <= Len(b) /\ SubSeq(b, 1, Len(a)) = a
Entered(p) == pc[p] \notin {"idle", "start"}
PastCheck(p) == pc[p] \notin {"idle", "start", "check"}
Completed(p) == Len(log[p]) = 10
Failed(p) == exc[p] # NoExc
\* the canonical path of the invocation's target directory
Target(p) == Lookup(fs, agent_path[p]).path
\* the entries that differ between two filesystems
Changed(f0, f) ==
  (f.dirs \ f0.dirs) \cup (f0.dirs \ f.dirs) \cup (DOMAIN f0.files \ DOMAIN f.files)
    \cup {q \in DOMAIN f.files : q \notin DOMAIN f0.files \/ f0.files[q] # f.files[q]}
FileNamed(base, ext) == <<base, ".", ext>>

\* ---------------------------------------------------------------- C1
\* C1: an invocation whose target path exists when it is entered (as a file
\* or as a directory) fails with the already-exists error and leaves the
\* filesystem exactly as it was; so does every run repeated after a
\* successful one.
C1_TargetWasThere(p) ==
  LET l == Lookup(fs0[p], agent_path[p])
  IN l.err = "OK" /\ (l.path \in fs0[p].dirs \/ l.path \in DOMAIN fs0[p].files)
C1_ExistingTargetRejected ==
  \A p \in Procs :
    (PastCheck(p) /\ (C1_TargetWasThere(p) \/ (p = 2 /\ exit_code[1] = 0)))
      => /\ exc[p].type = "ValueError"
         /\ exc[p].errno = "already exists!"
         /\ exc[p].path = agent_path[p]
         /\ log[p] = << >>
         /\ fs = fs0[p]

\* a repeated run, asking for other content than the first one wrote, has
\* been turned down
C1_Witness ==
  /\ pc[2] = "exited" /\ exit_code[2] = 1
  /\ Len(wlog[1]) = 5
  /\ description[2] # description[1] /\ use_txt[2] # use_txt[1]

\* ---------------------------------------------------------------- C2
\* C2: a name whose identifier is empty makes the generator fail with a name
\* validation error, not the already-exists error, and nothing is created.
C2_EmptyNameRejected ==
  \A p \in Procs :
    (PastCheck(p) /\ agent_name[p] = << >>)
      => /\ exc[p].type = "InvalidNameError"
         /\ fs = fs0[p]

\* ---------------------------------------------------------------- C3
\* C3: after a successful invocation the target directory holds exactly the
\* subdirectories files, schemas and tools and exactly five files, each with
\* the content of its own template.
C3_FiveFilesThreeDirs ==
  \A p \in Procs :
    (Completed(p) /\ ~Failed(p)) =>
      LET t == Target(p)
          an == agent_name[p]
          tools == Append(t, <<"tools">>)
          expected ==
            { Append(t, FileNamed("__init__", "py")), Append(t, an \o <<".", "py">>),
              Append(t, FileNamed("instructions", IF use_txt[p] THEN "txt" ELSE "md")),
              Append(tools, FileNamed("example_tool", "py")),
              Append(tools, FileNamed("__init__", "py")) }
      IN /\ {d \in fs.dirs : Len(d) = Len(t) + 1 /\ IsPrefix(t, d)}
              = {Append(t, <<"files">>), Append(t, <<"schemas">>), tools}
         /\ {q \in DOMAIN fs.files : IsPrefix(t, q)} = expected
         /\ Cardinality(expected) = 5
         /\ \A i \in DOMAIN wlog[p] :
              /\ wlog[p][i].path \in DOMAIN fs.files
              /\ fs.files[wlog[p][i].path] = wlog[p][i].content

\* ---------------------------------------------------------------- C4
\* C4: the identifier is the name with every whitespace character removed,
\* leading, trailing and internal, the other characters kept in order.
IsNotWhitespace(c) == c \notin {" ", "\t"}
C4_AllWhitespaceRemoved ==
  \A p \in Procs : Entered(p) => agent_name[p] = SelectSeq(name[p], IsNotWhitespace)

\* ---------------------------------------------------------------- C5
\* C5: a command whose generator completed exits with code 0 after writing to
\* standard output one success message holding the name as supplied; a command
\* whose generator raised writes no success message, writes to the error
\* stream one message embedding the exception, and exits with code 1.
C5_ExitReport ==
  \A p \in Procs :
    /\ pc[p] = "exited" =>
         IF Completed(p)
         THEN /\ exit_code[p] = 0
              /\ stdout[p] = << <<"OK Agent template '">> \o name[p] \o <<"' created successfully!">> >>
              /\ stderr[p] = << >>
         ELSE /\ exit_code[p] = 1
              /\ stdout[p] = << >>
              /\ Len(stderr[p]) = 1
              /\ stderr[p][1].e = exc[p]
              /\ exc[p].type # "None"
    /\ pc[p] # "exited" => exit_code[p] = -1 /\ stdout[p] = << >> /\ stderr[p] = << >>

\* a first run has reported success under a name that differs from its
\* identifier, and the run repeated after it has reported its failure
C5_Witness ==
  /\ pc[1] = "exited" /\ exit_code[1] = 0 /\ name[1] # agent_name[1]
  /\ pc[2] = "exited" /\ exit_code[2] = 1

\* ---------------------------------------------------------------- C6
\* C6: a successful invocation writes exactly one instructions file, with the
\* extension md or txt the flag selects, it creates no file of the other
\* extension, and the class stub it writes names that same extension.
C6_OneInstructionsFile ==
  \A p \in Procs :
    (Completed(p) /\ ~Failed(p)) =>
      LET ext == IF use_txt[p] THEN "txt" ELSE "md"
          other == IF use_txt[p] THEN "md" ELSE "txt"
          made == Append(Target(p), FileNamed("instructions", ext))
          unmade == Append(Target(p), FileNamed("instructions", other))
          instr == {i \in DOMAIN wlog[p] :
                      wlog[p][i].path[Len(wlog[p][i].path)][1] = "instructions"}
          stubs == {i \in DOMAIN wlog[p] : wlog[p][i].step = "write_class"}
      IN /\ Cardinality(instr) = 1
         /\ \A i \in instr : wlog[p][i].path = made
         /\ made \in DOMAIN fs.files
         /\ unmade \in DOMAIN fs.files
              => unmade \in DOMAIN fs0[p].files /\ fs.files[unmade] = fs0[p].files[unmade]
         /\ Cardinality(stubs) = 1
         /\ \A i \in stubs :
              /\ Contains(wlog[p][i].content, <<"instructions=\"./instructions.", ext, "\"">>)
              /\ ~Contains(wlog[p][i].content, <<"instructions=\"./instructions.", other>>)

\* a run asked for the txt extension has completed
C6_Witness ==
  /\ Completed(1) /\ use_txt[1]
  /\ Append(Target(1), FileNamed("instructions", "txt")) \in DOMAIN fs.files

\* ---------------------------------------------------------------- C7
\* C7: the agent folder is the child of base_path named by the identifier, and
\* an invocation touches nothing but base_path, its ancestors, and what lies
\* inside that folder.
C7_DirectChildOnly ==
  \A p \in Procs :
    PastCheck(p) =>
      LET folder == Append(base_path[p], agent_name[p])
      IN /\ \A q \in Changed(fs0[p], fs) : IsPrefix(q, base_path[p]) \/ IsPrefix(folder, q)
         /\ (Completed(p) /\ ~Failed(p)) => folder \in fs.dirs

\* ---------------------------------------------------------------- C8
\* C8: after a successful invocation the class stub file holds
\* name="<identifier>" and description="<description>", the description copied
\* as it was given, and the Role section of the instructions file holds the
\* identifier and the lower-cased description.
C8_Interpolation ==
  \A p \in Procs :
    (Completed(p) /\ ~Failed(p)) =>
      LET stub == Lookup(fs, Join(agent_path[p], agent_name[p] \o <<".", "py">>)).path
          instr == Append(Target(p), FileNamed("instructions", IF use_txt[p] THEN "txt" ELSE "md"))
      IN /\ stub \in DOMAIN fs.files
         /\ Contains(fs.files[stub], <<"name=\"">> \o agent_name[p] \o <<"\"">>)
         /\ Contains(fs.files[stub], <<"description=\"">> \o description[p] \o <<"\"">>)
         /\ instr \in DOMAIN fs.files
         /\ Contains(fs.files[instr],
                     <<"## Role\n", "You are a ">> \o agent_name[p]
                       \o <<" agent responsible for ">>
                       \o [i \in 1..Len(description[p]) |->
                             IF description[p][i] = "Say \"Hi\"" THEN "say \"hi\""
                             ELSE description[p][i]])
         /\ \A q \in Changed(fs0[p], fs) : \A i \in 1..Len(q) : ~Contains(q[i], <<"Say \"Hi\"">>)

\* ---------------------------------------------------------------- C9
\* the order in which the generator takes its filesystem steps
C9_Order ==
  <<"check", "mkdir_target", "mkdir_files", "mkdir_schemas", "mkdir_tools",
    "write_init", "write_class", "write_instructions", "write_example_tool",
    "write_tools_init">>
C9_Running(p) == pc[p] \notin {"idle", "start", "returned", "raised", "exited"}

\* C9 as stated: a step that fails with an I/O error leaves the filesystem
\* holding exactly what the steps before it produced.
C9_FailedStepLeavesNothing ==
  [][\A p \in Procs :
       (C9_Running(p) /\ pc'[p] = "raised" /\ exc'[p].type # "ValueError") => fs' = fs]_vars

\* the steps are taken in the one order, none twice, and every file lies in
\* a directory
C9_InOrder ==
  /\ \A p \in Procs :
       /\ Len(log[p]) <= Len(C9_Order)
       /\ log[p] = SubSeq(C9_Order, 1, Len(log[p]))
       /\ C9_Running(p) => pc[p] = C9_Order[Len(log[p]) + 1]
       /\ pc[p] = "returned" => (Len(log[p]) = Len(C9_Order) /\ ~Failed(p))
       /\ pc[p] = "raised" => (Len(log[p]) < Len(C9_Order) /\ Failed(p))
  /\ \A q \in DOMAIN fs.files : Parent(q) \in fs.dirs

\* what the step that fails may leave behind: directories on the way to the
\* target when the target is being created, or the file being written, empty
C9_Leftover(p) ==
  LET k == pc[p]
      new == Changed(fs, fs')
  IN /\ fs.dirs \subseteq fs'.dirs
     /\ DOMAIN fs.files \subseteq DOMAIN fs'.files
     /\ k \in {"check", "mkdir_files", "mkdir_schemas", "mkdir_tools"} => new = {}
     /\ k = "mkdir_target" => \A q \in new : q \in fs'.dirs /\ ~Present(fs, q)
     /\ k \in {"write_init", "write_class", "write_instructions", "write_example_tool",
               "write_tools_init"}
          => \A q \in new : /\ q = Lookup(fs, WritePath(agent_path[p], agent_name[p], use_txt[p], k)).path
                            /\ fs'.files[q] = << >>

\* C9 amended: a failing step stops the invocation at once (no later step, no
\* retry, nothing removed, the error raised), and leaves what the steps
\* before it produced plus only its own partial effect.
C9_StopsAtFailure ==
  /\ []C9_InOrder
  /\ [][\A p \in Procs :
          /\ (C9_Running(p) /\ pc'[p] = "raised") =>
               /\ exc'[p] # NoExc /\ log'[p] = log[p]
               /\ C9_Leftover(p)
          /\ Failed(p) =>
               /\ fs' = fs /\ log' = log /\ exc'[p] = exc[p]
               /\ pc'[p] \in {"raised", "exited"}]_vars

\* a write has failed after the target and its subdirectories were made, and
\* has left its file behind, empty
C9_Witness ==
  \E p \in Procs :
    /\ pc[p] = "raised" /\ exc[p].errno = "EIO" /\ Len(log[p]) >= 6
    /\ \E q \in DOMAIN lastw : ~lastw[q].ok /\ fs.files[q] = << >>

\* ---------------------------------------------------------------- C10
C10_SameTarget == (\A p \in Procs : Entered(p)) /\ agent_path[1] = agent_path[2]
C10_BothPassed == C10_SameTarget /\ \A p \in Procs : Len(log[p]) >= 1

\* C10: when both invocations pass the existence check, both complete and
\* report success.
C10_BothSucceed ==
  (C10_BothPassed /\ \A p \in Procs : pc[p] = "exited") => \A p \in Procs : exit_code[p] = 0

\* What the race does guarantee: when both invocations pass the existence
\* check neither fails with the already-exists error, and each completes
\* unless a write of its own finds no parent directory (an identifier holding
\* a "/"); every file holds what the invocation that wrote it last wrote; an
\* invocation that checks after the other one has made the target fails with
\* the already-exists error, so that at most one of the two succeeds.
Race_LastWriterWins ==
  /\ C10_BothPassed =>
       \A p \in Procs :
         /\ exc[p].type \in {"None", "FileNotFoundError"}
         /\ (\A i \in 1..Len(agent_name[p]) : agent_name[p][i] # "/") => ~Failed(p)
         /\ pc[p] = "exited" => (exit_code[p] = 0 <=> ~Failed(p))
  /\ \A q \in DOMAIN lastw :
       /\ q \in DOMAIN fs.files
       /\ \E i \in DOMAIN wlog[lastw[q].proc] :
            /\ wlog[lastw[q].proc][i].step = lastw[q].step
            /\ wlog[lastw[q].proc][i].path = q
            /\ wlog[lastw[q].proc][i].content = fs.files[q]
  /\ \A p \in Procs :
       (C10_SameTarget /\ sawAtCheck[p] = "over" /\ PastCheck(p))
         => /\ Len(log[Other(p)]) >= 2 => exc[p].type = "ValueError"
            /\ ~(\A r \in Procs : pc[r] \in {"returned", "exited"} /\ ~Failed(r))

\* both have reported success, and the tree mixes them: both instructions
\* files, the class stub of one, the module initializer of the other
Race_Mixed ==
  /\ C10_BothPassed
  /\ \A p \in Procs : pc[p] = "exited" /\ exit_code[p] = 0
  /\ description[1] # description[2]
  /\ Append(Target(1), FileNamed("instructions", "md")) \in DOMAIN fs.files
  /\ Append(Target(1), FileNamed("instructions", "txt")) \in DOMAIN fs.files
  /\ \E q1, q2 \in DOMAIN lastw :
       /\ lastw[q1].proc = 1 /\ lastw[q1].step = "write_class"
       /\ lastw[q2].proc = 2 /\ lastw[q2].step = "write_init"

====
